---- MODULE Spec2Model ----
(***************************************************************************)
(* A model of the Sparkify churn notebook (src/Sparkify_full.ipynb):       *)
(*   label_data, build_features        -- specification Spec               *)
(*   drop_multicollinear_features      -- specification SpecReduce         *)
(* A Spark DataFrame is an unordered collection of rows, so a DataFrame is *)
(* modelled as a bag of records.  The order in which the engine meets the  *)
(* rows of a group or of a window partition is chosen by the engine and is *)
(* modelled as a nondeterministic choice inside the action that needs it.  *)
(* Timestamps are integers (epoch milliseconds in the source); every       *)
(* quotient is kept as an exact fraction [num, den], and a division by     *)
(* zero gives NULL, as Spark's `/` does.                                   *)
(***************************************************************************)
EXTENDS Integers, Sequences, FiniteSets, Bags, TLC

(* ------------------------------ bounds --------------------------------- *)
MaxEvents == 3
MaxTs == 3
MaxCols == 4

(* ------------------------- the input domain ---------------------------- *)
Users == {"u1", "u2"}
Sessions == {1, 2}
Pages == {"Cancellation Confirmation", "NextSong"}
Timestamps == 1..MaxTs
\* before every event, or inside the dataset's time span
Registrations == {0, MaxTs - 1}

VARIABLES
  pc,          \* position in the notebook's pipeline
  df,          \* the cleaned event log handed to label_data
  labeled_df,  \* label_data's result: df with the label column
  obs_df,      \* build_features' df after the observation-period columns
  agg_df,      \* build_features' user_df before the final drop (keyed by userId)
  user_df,     \* build_features' result
  rpc,         \* position in the reducer's run
  columns,     \* user_df.columns of the feature table handed to the reducer
  corr_mat,    \* Correlation.corr of that table, by column names
  threshold,   \* the threshold argument
  model_df,    \* the outcome of drop_multicollinear_features(user_df)
  model_df2,   \* the outcome of drop_multicollinear_features(model_df)
  spc,         \* position in the split's run
  split_model_df, \* the rows of the model_df handed to split_train_test
  fraction,    \* the fraction argument, in percent
  train,       \* split_train_test's training set
  test         \* split_train_test's test set

pvars == <<pc, df, labeled_df, obs_df, agg_df, user_df>>
rvars == <<rpc, columns, corr_mat, threshold, model_df, model_df2>>
svars == <<spc, split_model_df, fraction, train, test>>
vars == <<pvars, rvars, svars>>

(* ------------------------------ helpers -------------------------------- *)
RECURSIVE SumOver(_, _)
\* sum of f[x] over the finite set S
SumOver(S, f) ==
  IF S = {} THEN 0
  ELSE LET x == CHOOSE y \in S : TRUE IN f[x] + SumOver(S \ {x}, f)

SetMin(S) == CHOOSE x \in S : \A y \in S : x <= y
SetMax(S) == CHOOSE x \in S : \A y \in S : x >= y

\* the rows (without multiplicity) of a DataFrame
Rows(b) == BagToSet(b)
\* the number of rows of a DataFrame
CountRows(b) == BagCardinality(b)
\* DataFrame.withColumn: every row r becomes f[r], multiplicities kept
WithColumns(b, f) ==
  LET S == Rows(b) IN
  [x \in {f[r] : r \in S} |-> SumOver({r \in S : f[r] = x}, [r \in S |-> b[r]])]

\* the rows of the window partition / group of userId u
Partition(b, u) == {r \in Rows(b) : r.userId = u}
UserIds(b) == {r.userId : r \in Rows(b)}

(* ------------------------------ label_data ----------------------------- *)
\* when(col('page') == 'Cancellation Confirmation', 1).otherwise(0)
ChurnEvent(r) == IF r.page = "Cancellation Confirmation" THEN 1 ELSE 0

\* max(label).over(userWindow): the frame is the whole partition
MaxOverUserWindow(b, u) == SetMax({ChurnEvent(r) : r \in Partition(b, u)})

\* label_data with the frame ending at the current row (the default frame
\* of an ordered window): the label no longer looks ahead
label_data_running(b) ==
  WithColumns(b, [r \in Rows(b) |->
    [userId |-> r.userId, ts |-> r.ts, page |-> r.page,
     registration |-> r.registration, sessionId |-> r.sessionId,
     Churn |-> SetMax({ChurnEvent(x) :
                 x \in {y \in Partition(b, r.userId) : y.ts <= r.ts}})]])

label_data(b) ==
  WithColumns(b, [r \in Rows(b) |->
    [userId |-> r.userId, ts |-> r.ts, page |-> r.page,
     registration |-> r.registration, sessionId |-> r.sessionId,
     Churn |-> MaxOverUserWindow(b, r.userId)]])

(* ------------------------ outcomes of a call --------------------------- *)
Returned(cols) == [status |-> "returned", columns |-> cols]
Raised(error) == [status |-> error, columns |-> << >>]
NoResult == [status |-> "none", columns |-> << >>]

(* --------------------------- the event logs ---------------------------- *)
RawEvents ==
  [userId : Users, ts : Timestamps, page : Pages, sessionId : Sessions]

RECURSIVE RawBags(_)
\* every bag of exactly k raw events
RawBags(k) ==
  IF k = 0 THEN {EmptyBag}
  ELSE {b (+) SetToBag({e}) : b \in RawBags(k - 1), e \in RawEvents}

EventLogs == UNION {RawBags(k) : k \in 1..MaxEvents}

\* registration is an attribute of the user: every event of a user carries it
WithRegistration(b, reg) ==
  WithColumns(b, [r \in Rows(b) |->
    [userId |-> r.userId, ts |-> r.ts, page |-> r.page,
     registration |-> reg[r.userId], sessionId |-> r.sessionId]])

(* ------------------------------ pipeline ------------------------------- *)
Init ==
  /\ pc = "cleaned"
  /\ \E b \in EventLogs : \E reg \in [UserIds(b) -> Registrations] :
       df = WithRegistration(b, reg)
  /\ labeled_df = EmptyBag
  /\ obs_df = EmptyBag
  /\ agg_df = {}
  /\ user_df = EmptyBag
  /\ rpc = "off"
  /\ columns = << >>
  /\ corr_mat = << >>
  /\ threshold = 0
  /\ model_df = NoResult
  /\ model_df2 = NoResult
  /\ spc = "off"
  /\ split_model_df = EmptyBag
  /\ fraction = 0
  /\ train = EmptyBag
  /\ test = EmptyBag

LabelData ==
  /\ pc = "cleaned"
  /\ labeled_df' = label_data(df)
  /\ pc' = "labeled"
  /\ UNCHANGED <<df, obs_df, agg_df, user_df, rvars, svars>>

(* ----------------------------- build_features -------------------------- *)
\* an exact quotient num/den; den = 0 stands for Spark's null
Frac(n, d) == [num |-> n, den |-> d]
NULL == Frac(0, 0)
IsNull(x) == x.den = 0
\* Spark's `/` on doubles: null when an operand is null or the divisor is zero
Divide(a, b) ==
  IF IsNull(a) \/ IsNull(b) \/ b.num = 0 THEN NULL
  ELSE Frac(a.num * b.den, a.den * b.num)

MsPerDay == 1000 * 3600 * 24
MsPerHour == 1000 * 3600

\* the engine's choice of one row for every group (first/last in a groupBy)
RowChoices(b) ==
  {f \in [UserIds(b) -> Rows(b)] : \A u \in UserIds(b) : f[u].userId = u}

\* first(col('ts')).over(userWindow): the partition is ordered by ts
FirstTs(b, u) == SetMin({r.ts : r \in Partition(b, u)})
\* last(col('ts')).over(userWindow)
LastTs(b, u) == SetMax({r.ts : r \in Partition(b, u)})
\* LastRows for first(col('page')) in place of last(col('page'))
FirstRows(b, u) == {r \in Partition(b, u) : r.ts = FirstTs(b, u)}

\* the rows that can be last in a partition ordered by ts (ties are in any order)
LastRows(b, u) == {r \in Partition(b, u) : r.ts = LastTs(b, u)}
LastRowChoices(b) ==
  {f \in RowChoices(b) : \A u \in UserIds(b) : f[u] \in LastRows(b, u)}

\* df.select(min(col('ts'))) and df.select(max(col('ts')))
obs_start_default(b) == SetMin({r.ts : r \in Rows(b)})
obs_end_default(b) == SetMax({r.ts : r \in Rows(b)})

\* groupBy('userId').agg((last(ts) - last(registration))/1000/3600/24)
regist_duration_df(b, lastRow) ==
  {[userId |-> u,
    registDuration |-> Frac(lastRow[u].ts - lastRow[u].registration, MsPerDay)]
   : u \in UserIds(b)}

\* groupBy(['userId', 'sessionId']).agg(min(ts), max(ts))
session_df(b) ==
  {[userId |-> k[1], sessionId |-> k[2],
    session_start |-> SetMin({r.ts : r \in {x \in Rows(b) :
                                 x.userId = k[1] /\ x.sessionId = k[2]}}),
    session_end |-> SetMax({r.ts : r \in {x \in Rows(b) :
                                 x.userId = k[1] /\ x.sessionId = k[2]}})]
   : k \in {<<r.userId, r.sessionId>> : r \in Rows(b)}}

\* .groupBy('userId').agg(avg((session_end - session_start)/1000/3600))
avg_session_duration_df(b) ==
  LET S == session_df(b) IN
  {[userId |-> u,
    avgSessionDuration |->
      LET Su == {s \in S : s.userId = u} IN
      Frac(SumOver(Su, [s \in Su |-> s.session_end - s.session_start]),
           MsPerHour * Cardinality(Su))]
   : u \in UserIds(b)}

\* ObsRow with col('ts') in place of first(col('ts')).over(userWindow)
ObsRowOwnTs(b, endRow, r) ==
  LET start == IF r.registration > obs_start_default(b)
               THEN r.ts ELSE obs_start_default(b)
      state == endRow[r.userId].page
      end == IF state = "Cancellation Confirmation"
             THEN LastTs(b, r.userId) ELSE obs_end_default(b)
  IN [userId |-> r.userId, ts |-> r.ts, page |-> r.page,
      registration |-> r.registration, sessionId |-> r.sessionId,
      Churn |-> r.Churn, obs_start |-> start, end_state |-> state,
      obs_end |-> end, obsDays |-> Frac(end - start, MsPerDay)]

\* ObsRow with the registration timestamp as the start of the window
ObsRowFromRegistration(b, endRow, r) ==
  LET start == IF r.registration > obs_start_default(b)
               THEN r.registration ELSE obs_start_default(b)
      state == endRow[r.userId].page
      end == IF state = "Cancellation Confirmation"
             THEN LastTs(b, r.userId) ELSE obs_end_default(b)
  IN [userId |-> r.userId, ts |-> r.ts, page |-> r.page,
      registration |-> r.registration, sessionId |-> r.sessionId,
      Churn |-> r.Churn, obs_start |-> start, end_state |-> state,
      obs_end |-> end, obsDays |-> Frac(end - start, MsPerDay)]

\* the four withColumn calls that compute the observation period of a row
ObsRow(b, endRow, r) ==
  LET start == IF r.registration > obs_start_default(b)
               THEN FirstTs(b, r.userId) ELSE obs_start_default(b)
      state == endRow[r.userId].page
      end == IF state = "Cancellation Confirmation"
             THEN LastTs(b, r.userId) ELSE obs_end_default(b)
  IN [userId |-> r.userId, ts |-> r.ts, page |-> r.page,
      registration |-> r.registration, sessionId |-> r.sessionId,
      Churn |-> r.Churn, obs_start |-> start, end_state |-> state,
      obs_end |-> end, obsDays |-> Frac(end - start, MsPerDay)]

observation_df(b, endRow) ==
  WithColumns(b, [r \in Rows(b) |-> ObsRow(b, endRow, r)])

\* sum(when(col('page') == ..., 1).otherwise(0)) over the group of u
CountPages(b, u, pages) ==
  LET S == {r \in Partition(b, u) : r.page \in pages} IN
  SumOver(S, [r \in S |-> b[r]])

\* df.groupBy('userId').agg(first(label), first(obsDays), sum(...), ...): o is
\* the df with the observation-period columns, firstRow the engine's first rows
activity_df(o, firstRow) ==
  {[userId |-> u,
    Churn |-> firstRow[u].Churn,
    obsDays |-> firstRow[u].obsDays,
    nSongs |-> CountPages(o, u, {"NextSong"}),
    nThumbsUp |-> CountPages(o, u, {"Thumbs Up"}),
    nThumbsDown |-> CountPages(o, u, {"Thumbs Down"}),
    nUpgrade |-> CountPages(o, u, {"Upgrade", "Submit Upgrade"}),
    nDowngrade |-> CountPages(o, u, {"Downgrade", "Submit Downgrade"}),
    nAddFriend |-> CountPages(o, u, {"Add Friend"}),
    nAddPlaylist |-> CountPages(o, u, {"Add to Playlist"}),
    nAdvert |-> CountPages(o, u, {"Roll Advert"}),
    nHelp |-> CountPages(o, u, {"Help"}),
    nError |-> CountPages(o, u, {"Error"})] : u \in UserIds(o)}

\* JoinOnUserId with the key left out of the first join (a cross join)
JoinWithoutKey(G, R, A) ==
  {[userId |-> t[1].userId, Churn |-> t[1].Churn, obsDays |-> t[1].obsDays,
    nSongs |-> t[1].nSongs, nThumbsUp |-> t[1].nThumbsUp,
    nThumbsDown |-> t[1].nThumbsDown, nUpgrade |-> t[1].nUpgrade,
    nDowngrade |-> t[1].nDowngrade, nAddFriend |-> t[1].nAddFriend,
    nAddPlaylist |-> t[1].nAddPlaylist, nAdvert |-> t[1].nAdvert,
    nHelp |-> t[1].nHelp, nError |-> t[1].nError,
    registDuration |-> t[2].registDuration,
    avgSessionDuration |-> t[3].avgSessionDuration]
   : t \in {x \in G \X R \X A : x[1].userId = x[3].userId}}

\* G.join(R, on='userId').join(A, on='userId')
JoinOnUserId(G, R, A) ==
  {[userId |-> t[1].userId, Churn |-> t[1].Churn, obsDays |-> t[1].obsDays,
    nSongs |-> t[1].nSongs, nThumbsUp |-> t[1].nThumbsUp,
    nThumbsDown |-> t[1].nThumbsDown, nUpgrade |-> t[1].nUpgrade,
    nDowngrade |-> t[1].nDowngrade, nAddFriend |-> t[1].nAddFriend,
    nAddPlaylist |-> t[1].nAddPlaylist, nAdvert |-> t[1].nAdvert,
    nHelp |-> t[1].nHelp, nError |-> t[1].nError,
    registDuration |-> t[2].registDuration,
    avgSessionDuration |-> t[3].avgSessionDuration]
   : t \in {x \in G \X R \X A :
              x[1].userId = x[2].userId /\ x[1].userId = x[3].userId}}

\* the ten withColumn('avgDaily...') calls and the final drop, for one row
FeatureRow(g) ==
  [Churn |-> g.Churn,
   registDuration |-> g.registDuration,
   avgSessionDuration |-> g.avgSessionDuration,
   avgDailySongs |-> Divide(Frac(g.nSongs, 1), g.obsDays),
   avgDailyThumbsUp |-> Divide(Frac(g.nThumbsUp, 1), g.obsDays),
   avgDailyThumbsDown |-> Divide(Frac(g.nThumbsDown, 1), g.obsDays),
   avgDailyUpgrade |-> Divide(Frac(g.nUpgrade, 1), g.obsDays),
   avgDailyDowngrade |-> Divide(Frac(g.nDowngrade, 1), g.obsDays),
   avgDailyAddFriend |-> Divide(Frac(g.nAddFriend, 1), g.obsDays),
   avgDailyAddPlaylist |-> Divide(Frac(g.nAddPlaylist, 1), g.obsDays),
   avgDailyAdvert |-> Divide(Frac(g.nAdvert, 1), g.obsDays),
   avgDailyHelp |-> Divide(Frac(g.nHelp, 1), g.obsDays),
   avgDailyError |-> Divide(Frac(g.nError, 1), g.obsDays)]

\* the rows of the keyed table G as a DataFrame without the key
features_df(G) ==
  [x \in {FeatureRow(g) : g \in G} |-> Cardinality({g \in G : FeatureRow(g) = x})]

BuildFeatures ==
  /\ pc = "labeled"
  /\ \E endRow \in LastRowChoices(labeled_df) :
       obs_df' = observation_df(labeled_df, endRow)
  /\ \E lastRow \in RowChoices(labeled_df) :
     \E firstRow \in RowChoices(obs_df') :
       agg_df' = JoinOnUserId(activity_df(obs_df', firstRow),
                              regist_duration_df(labeled_df, lastRow),
                              avg_session_duration_df(labeled_df))
  /\ user_df' = features_df(agg_df')
  /\ pc' = "built"
  /\ UNCHANGED <<df, labeled_df, rvars, svars>>

Next == LabelData \/ BuildFeatures

Spec == Init /\ [][Next]_vars

(* ====================== drop_multicollinear_features =================== *)
\* correlations and thresholds are kept in units of 0.05
Twentieths(percent) == percent \div 5
One == Twentieths(100)
THRESHOLD_DEFAULT == Twentieths(85)
label == "Churn"

Abs(x) == IF x < 0 THEN -x ELSE x
ColSet(cols) == {cols[i] : i \in 1..Len(cols)}
Position(cols, c) == CHOOSE i \in 1..Len(cols) : cols[i] = c

RECURSIVE SortedSeq(_)
\* the members of a set of integers in increasing order
SortedSeq(S) ==
  IF S = {} THEN << >> ELSE <<SetMin(S)>> \o SortedSeq(S \ {SetMin(S)})

\* is_high_corr without np.abs: corr_mat_pd.values > threshold
is_high_corr_signed(cm, thr, a, b) == cm[a][b] > thr

\* is_high_corr = np.abs(corr_mat_pd.values) > threshold
is_high_corr(cm, thr, a, b) == Abs(cm[a][b]) > thr

\* adj_mat = is_high_corr.astype(int) - np.identity(len(user_df.columns))
adj_mat(cm, thr, a, b) ==
  (IF is_high_corr(cm, thr, a, b) THEN 1 ELSE 0) - (IF a = b THEN 1 ELSE 0)

\* an edge of the undirected graph: a stored (nonzero) entry in either direction
Adjacent(cm, thr, a, b) == adj_mat(cm, thr, a, b) # 0 \/ adj_mat(cm, thr, b, a) # 0

RECURSIVE Reachable(_, _, _, _)
Reachable(cols, cm, thr, S) ==
  LET T == S \cup {b \in ColSet(cols) : \E a \in S : Adjacent(cm, thr, a, b)}
  IN IF T = S THEN S ELSE Reachable(cols, cm, thr, T)

ComponentOf(cols, cm, thr, c) == Reachable(cols, cm, thr, {c})
FirstPosition(cols, S) == SetMin({Position(cols, c) : c \in S})

\* the connected components of the graph, as sets of column names
components(cols, cm, thr) == {ComponentOf(cols, cm, thr, c) : c \in ColSet(cols)}

\* _, corr_labels = connected_components(csgraph=adj_mat, directed=False):
\* the components are numbered 0, 1, ... in the order of their first column
corr_labels(cols, cm, thr) ==
  LET comps == components(cols, cm, thr) IN
  [i \in 1..Len(cols) |->
     LET mine == CHOOSE K \in comps : cols[i] \in K IN
     Cardinality({K \in comps : FirstPosition(cols, K) < FirstPosition(cols, mine)})]

\* unique[unique_counts > 1], in increasing order
high_corr_labels(labels) ==
  SortedSeq({labels[i] : i \in {k \in DOMAIN labels :
               Cardinality({j \in DOMAIN labels : labels[j] = labels[k]}) > 1}})

\* high_corr_col_dict.values(): one list of column names per group, each in
\* the order of user_df.columns, the groups in the order of their labels
high_corr_col_dict(cols, labels) ==
  LET H == high_corr_labels(labels) IN
  [g \in 1..Len(H) |->
     LET idx == SortedSeq({i \in DOMAIN labels : labels[i] = H[g]})
     IN [k \in 1..Len(idx) |-> cols[idx[k]]]]

\* corr_mat_pd.loc[col_name_list, label].idxmax(): the first name of the list
\* whose correlation with the label is the greatest
idxmax(col_name_list, cm, lab) ==
  col_name_list[SetMin({i \in 1..Len(col_name_list) :
     \A j \in 1..Len(col_name_list) :
        cm[col_name_list[i]][lab] >= cm[col_name_list[j]][lab]})]

RECURSIVE DropLoop(_, _, _, _, _)
\* for col_name_list in high_corr_col_dict.values(): index is what is left of
\* corr_mat_pd's index and columns
DropLoop(groups, index, cm, lab, cols_to_drop) ==
  IF groups = << >> THEN [raised |-> "", cols_to_drop |-> cols_to_drop]
  ELSE LET col_name_list == Head(groups) IN
       IF lab \notin index \/ ~ (ColSet(col_name_list) \subseteq index)
       THEN [raised |-> "KeyError", cols_to_drop |-> cols_to_drop]
       ELSE LET col_to_keep == idxmax(col_name_list, cm, lab)
                others == SelectSeq(col_name_list, LAMBDA c : c # col_to_keep)
            IN DropLoop(Tail(groups), index \ ColSet(others), cm, lab,
                        cols_to_drop \o others)

drop_multicollinear_features(cols, cm, lab, thr) ==
  LET groups == high_corr_col_dict(cols, corr_labels(cols, cm, thr)) IN
  IF Len(groups) > 0
  THEN LET loop == DropLoop(groups, ColSet(cols), cm, lab, << >>) IN
       IF loop.raised # "" THEN Raised(loop.raised)
       ELSE Returned(SelectSeq(cols, LAMBDA c : c \notin ColSet(loop.cols_to_drop)))
  ELSE \* cols_to_drop is assigned only inside the if
       Raised("UnboundLocalError")

(* ------------------------- the feature tables -------------------------- *)
FeatureNames ==
  <<"registDuration", "avgSessionDuration", "avgDailySongs", "avgDailyThumbsUp",
    "avgDailyAddPlaylist", "avgDailyAdvert">>

\* n columns with the label column at position p
ColumnsWithLabelAt(n, p) ==
  [i \in 1..n |-> IF i = p THEN label
                  ELSE FeatureNames[IF i < p THEN i ELSE i - 1]]

CorrValues == {Twentieths(v) : v \in {-90, -70, -50, 50, 70, 90, 100}}
Thresholds == {Twentieths(60), THRESHOLD_DEFAULT}

RECURSIVE Det(_, _, _)
\* the determinant of the rows R and columns C (sequences of indices) of m
Det(m, R, C) ==
  IF R = << >> THEN 1
  ELSE LET J == 1..Len(C) IN
       SumOver(J, [j \in J |->
         IF m[R[1]][C[j]] = 0 THEN 0
         ELSE (IF j % 2 = 1 THEN 1 ELSE -1) * m[R[1]][C[j]]
              * Det(m, Tail(R), SelectSeq(C, LAMBDA c : c # C[j]))])

\* m with one more column whose correlations with the others are row
Extend(m, n, row) ==
  [i \in 1..n |-> [j \in 1..n |->
     IF i = n /\ j = n THEN One
     ELSE IF i = n THEN row[j] ELSE IF j = n THEN row[i] ELSE m[i][j]]]

\* the principal minors that contain the last column are not negative
Realizable(m, n) ==
  \A S \in SUBSET (1..(n - 1)) :
    Cardinality(S) >= 2 =>
      Det(m, SortedSeq(S \cup {n}), SortedSeq(S \cup {n})) >= 0

RECURSIVE CorrMatrices(_)
\* the n x n correlation matrices over CorrValues that are the correlation
\* matrix of some table: symmetric, unit diagonal, positive semidefinite
CorrMatrices(n) ==
  IF n = 1 THEN {<<<<One>>>>}
  ELSE {x \in {Extend(m, n, row) :
                 m \in CorrMatrices(n - 1), row \in [1..(n - 1) -> CorrValues]} :
          Realizable(x, n)}

\* the correlation matrices of the tables of 2 to MaxCols columns
FeatureCorrelations == UNION {CorrMatrices(n) : n \in 2..MaxCols}

\* the matrix as the pandas frame indexed by column names
ByName(cols, m) ==
  [a \in ColSet(cols) |-> [b \in ColSet(cols) |->
     m[Position(cols, a)][Position(cols, b)]]]

(* ------------------------------ the reducer ---------------------------- *)
InitReduce ==
  /\ pc = "off"
  /\ df = EmptyBag
  /\ labeled_df = EmptyBag
  /\ obs_df = EmptyBag
  /\ agg_df = {}
  /\ user_df = EmptyBag
  /\ rpc = "features"
  /\ \E m \in FeatureCorrelations : \E p \in 1..Len(m) :
       /\ columns = ColumnsWithLabelAt(Len(m), p)
       /\ corr_mat = ByName(columns, m)
  /\ threshold \in Thresholds
  /\ model_df = NoResult
  /\ model_df2 = NoResult
  /\ spc = "off"
  /\ split_model_df = EmptyBag
  /\ fraction = 0
  /\ train = EmptyBag
  /\ test = EmptyBag

\* model_df = drop_multicollinear_features(user_df, 'Churn', threshold)
DropMulticollinear ==
  /\ rpc = "features"
  /\ model_df' = drop_multicollinear_features(columns, corr_mat, label, threshold)
  /\ rpc' = "reduced"
  /\ UNCHANGED <<pvars, svars, columns, corr_mat, threshold, model_df2>>

\* drop_multicollinear_features(model_df, 'Churn', threshold): the correlation
\* of two columns of model_df is their correlation in user_df
DropAgain ==
  /\ rpc = "reduced"
  /\ model_df.status = "returned"
  /\ model_df2' = drop_multicollinear_features(model_df.columns, corr_mat, label, threshold)
  /\ rpc' = "reduced_twice"
  /\ UNCHANGED <<pvars, svars, columns, corr_mat, threshold, model_df>>

NextReduce == DropMulticollinear \/ DropAgain

SpecReduce == InitReduce /\ [][NextReduce]_vars

(* =========================== split_train_test ========================== *)
MaxRows == 3
MaxFeature == 2

\* the rows of a model_df: the label and one feature column
ModelRows == [Churn : {0, 1}, avgDailySongs : 1..MaxFeature]

RECURSIVE RowBags(_)
\* every DataFrame of exactly k rows; equal rows are kept as separate rows
RowBags(k) ==
  IF k = 0 THEN {EmptyBag}
  ELSE {b (+) SetToBag({x}) : b \in RowBags(k - 1), x \in ModelRows}

ModelTables == UNION {RowBags(k) : k \in 1..MaxRows}

\* the fraction argument in percent: 0.0, 0.8 (the notebook's call) and 1.0
Fractions == {0, 80, 100}

\* model_df.sampleBy(label, fractions={0: f, 1: f}, seed): every row is kept
\* when the seed's random draw for it, uniform in [0, 1), is below the fraction
\* of its label; the draws are the engine's, so any sub-table can come out
sampleBy(b, f) ==
  IF f = 0 THEN {EmptyBag}
  ELSE IF f = 100 THEN {b}
  ELSE SubBag(b)

\* a.subtract(b) is EXCEPT DISTINCT: the distinct rows of a that are not in b
subtract(a, b) == SetToBag({x \in BagToSet(a) : ~ BagIn(x, b)})

InitSplit ==
  /\ pc = "off"
  /\ df = EmptyBag
  /\ labeled_df = EmptyBag
  /\ obs_df = EmptyBag
  /\ agg_df = {}
  /\ user_df = EmptyBag
  /\ rpc = "off"
  /\ columns = << >>
  /\ corr_mat = << >>
  /\ threshold = 0
  /\ model_df = NoResult
  /\ model_df2 = NoResult
  /\ spc = "model"
  /\ split_model_df \in ModelTables
  /\ fraction \in Fractions
  /\ train = EmptyBag
  /\ test = EmptyBag

\* train, test = split_train_test(model_df, fraction)
SplitTrainTest ==
  /\ spc = "model"
  /\ \E t \in sampleBy(split_model_df, fraction) :
       /\ train' = t
       /\ test' = subtract(split_model_df, t)
  /\ spc' = "split"
  /\ UNCHANGED <<pvars, rvars, split_model_df, fraction>>

NextSplit == SplitTrainTest

SpecSplit == InitSplit /\ [][NextSplit]_vars

(* ------------------- properties of label_data / build_features --------- *)
CC == "Cancellation Confirmation"
Events == Rows(df)
EventsOf(u) == {e \in Events : e.userId = u}
IsGlobalMinTs(t) == (\E e \in Events : e.ts = t) /\ (\A e \in Events : t <= e.ts)
IsGlobalMaxTs(t) == (\E e \in Events : e.ts = t) /\ (\A e \in Events : t >= e.ts)
IsFirstTsOf(u, t) == (\E e \in EventsOf(u) : e.ts = t) /\ (\A e \in EventsOf(u) : t <= e.ts)
IsLastTsOf(u, t) == (\E e \in EventsOf(u) : e.ts = t) /\ (\A e \in EventsOf(u) : t >= e.ts)
\* the event a labeled or observation row was made from
EventOf(r) == [userId |-> r.userId, ts |-> r.ts, page |-> r.page,
               registration |-> r.registration, sessionId |-> r.sessionId]
Churned(u) == \E e \in EventsOf(u) : e.page = CC

\* C1: after label_data every event of the log is there with a label, and the
\* label of an event is 1 if and only if some event of its user, earlier or
\* later, is a 'Cancellation Confirmation', and 0 otherwise; so the label is
\* the same on all events of a user.
C1_LabelIsWholeHistoryChurn ==
  pc # "cleaned" =>
    /\ {EventOf(r) : r \in Rows(labeled_df)} = Events
    /\ CountRows(labeled_df) = CountRows(df)
    /\ \A r \in Rows(labeled_df) :
         /\ labeled_df[r] = df[EventOf(r)]
         /\ r.Churn = IF Churned(r.userId) THEN 1 ELSE 0
    /\ \A r, q \in Rows(labeled_df) : r.userId = q.userId => r.Churn = q.Churn

\* an event that precedes its user's cancellation is labeled 1
C1_Witness ==
  /\ pc = "labeled"
  /\ \E r, q \in Rows(labeled_df) :
       /\ r.userId = q.userId /\ r.ts < q.ts
       /\ r.page # CC /\ q.page = CC /\ r.Churn = 1
  /\ \E r \in Rows(labeled_df) : r.Churn = 0

\* C6 as stated: the observation-window start of a user is the user's
\* registration timestamp when that is greater than the dataset-wide minimum
\* event timestamp, and the dataset-wide minimum otherwise.
C6_ObsStartIsRegistration ==
  pc = "built" =>
    \A r \in Rows(obs_df) :
      IF \E e \in Events : e.ts < r.registration
      THEN r.obs_start = r.registration
      ELSE IsGlobalMinTs(r.obs_start)

\* C6 as amended: the observation-window start of a user is the timestamp of the
\* user's first event when the registration timestamp is greater than the
\* dataset-wide minimum event timestamp, and the dataset-wide minimum otherwise.
C6_ObsStartIsFirstEvent ==
  pc = "built" =>
    /\ {EventOf(r) : r \in Rows(obs_df)} = Events
    /\ \A r \in Rows(obs_df) :
         IF \E e \in Events : e.ts < r.registration
         THEN IsFirstTsOf(r.userId, r.obs_start)
         ELSE IsGlobalMinTs(r.obs_start)

\* a user registered after the dataset's start whose window starts at the first
\* event, which is not the registration timestamp
C6_Witness ==
  /\ pc = "built"
  /\ \E r \in Rows(obs_df) :
       /\ \E e \in Events : e.ts < r.registration
       /\ r.obs_start # r.registration
       /\ IsFirstTsOf(r.userId, r.obs_start)
       /\ ~ IsGlobalMinTs(r.obs_start)

\* C7: the observation-window end of a user is the timestamp of the user's last
\* event when the page of that last event (by timestamp) is 'Cancellation
\* Confirmation', and the dataset-wide maximum event timestamp otherwise; when
\* several events share the last timestamp, any of them is "the last event".
C7_ObsEndIsLastEventOrGlobalMax ==
  pc = "built" =>
    /\ {EventOf(r) : r \in Rows(obs_df)} = Events
    /\ \A r, q \in Rows(obs_df) : r.userId = q.userId => r.obs_end = q.obs_end
    /\ \A r \in Rows(obs_df) :
         \E e \in EventsOf(r.userId) :
           /\ IsLastTsOf(r.userId, e.ts)
           /\ IF e.page = CC THEN r.obs_end = e.ts ELSE IsGlobalMaxTs(r.obs_end)

\* a user whose only last event is the cancellation, before the dataset's end,
\* beside a user whose window runs to the dataset's end
C7_Witness ==
  /\ pc = "built"
  /\ \E r \in Rows(obs_df) :
       /\ r.page = CC /\ IsLastTsOf(r.userId, r.ts)
       /\ \A e \in EventsOf(r.userId) : e.ts = r.ts => e.page = CC
       /\ r.obs_end = r.ts /\ ~ IsGlobalMaxTs(r.ts)
  /\ \E r \in Rows(obs_df) : r.end_state # CC /\ IsGlobalMaxTs(r.obs_end)

RateColumns(x) ==
  {x.avgDailySongs, x.avgDailyThumbsUp, x.avgDailyThumbsDown, x.avgDailyUpgrade,
   x.avgDailyDowngrade, x.avgDailyAddFriend, x.avgDailyAddPlaylist,
   x.avgDailyAdvert, x.avgDailyHelp, x.avgDailyError}

\* C10: build_features guards the zero-length observation window: no
\* average-daily rate of an emitted row is null (the result of a division by
\* zero), also for a user whose observation-window end equals its start.
C10_NoNullRate ==
  pc = "built" =>
    \A g \in agg_df :
      g.obsDays.num = 0 => \A v \in RateColumns(FeatureRow(g)) : ~ IsNull(v)

EntityIds == {e.userId : e \in Events}
\* the number of rows of the feature table whose label is v
CountLabel(v) ==
  LET S == {x \in Rows(user_df) : x.Churn = v} IN
  SumOver(S, [x \in S |-> user_df[x]])

C12_OrderIndependent ==
  pc = "built" =>
    \A endRow \in LastRowChoices(labeled_df) :
    \A lastRow \in RowChoices(labeled_df) :
    \A firstRow \in RowChoices(observation_df(labeled_df, endRow)) :
      LET G == JoinOnUserId(
                 activity_df(observation_df(labeled_df, endRow), firstRow),
                 regist_duration_df(labeled_df, lastRow),
                 avg_session_duration_df(labeled_df))
      IN \A g \in agg_df : \A h \in G :
           g.userId = h.userId =>
             /\ g.Churn = h.Churn
             /\ g.registDuration = h.registDuration
             /\ g.avgSessionDuration = h.avgSessionDuration
             /\ RateColumns(FeatureRow(g)) = RateColumns(FeatureRow(h))
             /\ FeatureRow(g) = FeatureRow(h)

\* C13: the registration duration of every user is the timestamp of the user's
\* latest event (its maximum ts) minus the user's registration timestamp, in
\* days, whatever order the user's events are stored in.
C13_RegistDurationFromLastEvent ==
  pc = "built" =>
    \A g \in agg_df :
      \E e \in EventsOf(g.userId) :
        /\ IsLastTsOf(g.userId, e.ts)
        /\ g.registDuration.num = e.ts - e.registration
        /\ g.registDuration.den = MsPerDay

\* C14: the observation window never has negative length: every user has
\* obs_start <= obs_end, so obsDays >= 0, whatever the relation between the
\* registration timestamp and the event timestamps.
C14_WindowNotNegative ==
  pc = "built" =>
    /\ {EventOf(r) : r \in Rows(obs_df)} = Events
    /\ \A r \in Rows(obs_df) :
         /\ r.obs_start <= r.obs_end
         /\ r.obsDays.num >= 0 /\ r.obsDays.den > 0
    /\ \A g \in agg_df : g.obsDays.num >= 0 /\ g.obsDays.den > 0

\* a user who registered after all of its events and who cancels before the
\* dataset's end, beside a user registered before the dataset's start
C14_Witness ==
  /\ pc = "built"
  /\ \E r \in Rows(obs_df) :
       /\ \A e \in EventsOf(r.userId) : e.ts < r.registration
       /\ r.end_state = CC /\ ~ IsGlobalMaxTs(r.obs_end)
       /\ r.obs_start <= r.obs_end
  /\ \E r \in Rows(obs_df) :
       /\ \A e \in Events : r.registration < e.ts
       /\ r.obs_start < r.obs_end

\* C15: for every user labeled churned (Churn = 1) the observation window ends
\* at that user's own last event timestamp, for any history, also one where
\* other events follow or share the timestamp of the cancellation.
C15_ChurnedEndsAtOwnLastEvent ==
  pc = "built" =>
    \A r \in Rows(obs_df) :
      r.Churn = 1 => IsLastTsOf(r.userId, r.obs_end)

(* ---------------- properties of drop_multicollinear_features ----------- *)
Cols == ColSet(columns)
Features == Cols \ {label}
\* two distinct columns whose absolute correlation exceeds the threshold
HighCorr(a, b) == a # b /\ Abs(corr_mat[a][b]) > threshold
LabelCorr(c) == corr_mat[c][label]

RECURSIVE Closure(_)
Closure(S) ==
  LET T == S \cup {b \in Cols : \E a \in S : HighCorr(a, b)}
  IN IF T = S THEN S ELSE Closure(T)
\* the connected component of a column in the above-threshold graph
GroupOf(c) == Closure({c})
\* the connected components of size >= 2
RedundantGroups == {G \in {GroupOf(c) : c \in Cols} : Cardinality(G) >= 2}

ReturnedOnce == rpc # "features" /\ model_df.status = "returned"
Kept == ColSet(model_df.columns)

\* C2: in every redundant group (connected component of size >= 2) exactly one
\* column is kept, and it is a member whose ABSOLUTE correlation with the label
\* is the maximum over the group's members; every other member is removed.
C2_KeepsMaxAbsLabelCorr ==
  ReturnedOnce =>
    \A G \in RedundantGroups :
      \E k \in G :
        /\ G \cap Kept = {k}
        /\ \A c \in G : Abs(LabelCorr(k)) >= Abs(LabelCorr(c))

\* C3: drop_multicollinear_features is idempotent: applied to its own output it
\* completes normally and returns a table with exactly the columns of that output.
C3_Idempotent ==
  rpc = "reduced_twice" => model_df2 = Returned(model_df.columns)

\* C4: drop_multicollinear_features never removes the label column, wherever
\* the label column stands and whatever the correlations are.
C4_LabelKept ==
  ReturnedOnce => label \in Kept

\* C5: every column that belongs to no connected component of size >= 2 is in
\* the returned table; when no pair of columns exceeds the threshold the whole
\* input table is returned.
C5_UngroupedColumnsKept ==
  rpc # "features" =>
    /\ model_df.status = "returned" =>
         \A c \in Cols : Cardinality(GroupOf(c)) = 1 => c \in Kept
    /\ RedundantGroups = {} => model_df = Returned(columns)

\* C8: grouping is transitive: for features A, B, C with |corr(A,B)| and
\* |corr(B,C)| above the threshold and |corr(A,C)| not above it, A, B and C are
\* in one group, and when B has the highest correlation with the label of the
\* group's features, only B of the three is retained.
C8_TransitiveGroupKeepsB ==
  ReturnedOnce =>
    \A A, B, C \in Features :
      (/\ HighCorr(A, B) /\ HighCorr(B, C) /\ A # C /\ ~ HighCorr(A, C)
       /\ \A c \in (GroupOf(B) \cap Features) \ {B} : LabelCorr(B) > LabelCorr(c))
      => /\ GroupOf(A) = GroupOf(B) /\ GroupOf(C) = GroupOf(B)
         /\ B \in Kept /\ A \notin Kept /\ C \notin Kept

\* C9: of every redundant group (connected component of size >= 2) exactly one
\* feature (non-label column) remains in the returned table.
C9_OneFeaturePerGroup ==
  ReturnedOnce =>
    \A G \in RedundantGroups : Cardinality((G \cap Features) \cap Kept) = 1

\* C16: in the table drop_multicollinear_features returns, no two distinct
\* surviving columns have an absolute pairwise correlation above the threshold,
\* whatever the number of redundant groups and the order they are processed in.
C16_NoHighCorrPairSurvives ==
  ReturnedOnce =>
    /\ Kept \subseteq Cols
    /\ \A a, b \in Kept : ~ HighCorr(a, b)

\* a table is returned from an input with two redundant groups, one of them
\* joined by a negative correlation; one column of each group survives
C16_Witness ==
  /\ ReturnedOnce
  /\ Cardinality(RedundantGroups) = 2
  /\ Cardinality(Kept) = 2
  /\ \E a, b \in Cols : HighCorr(a, b) /\ corr_mat[a][b] < 0
  /\ \A G \in RedundantGroups : Cardinality(G \cap Kept) = 1

(* --------------------- properties of split_train_test ------------------ *)
\* the number of rows of the DataFrame b that equal x
Copies(b, x) == IF x \in DOMAIN b THEN b[x] ELSE 0

\* C17: split_train_test partitions its input: every row of model_df is in
\* exactly one of train and test, so the two are disjoint and their sizes add
\* up to the size of model_df, also when several rows of model_df are
\* identical in every column.
C17_SplitIsPartition ==
  spc = "split" =>
    /\ \A x \in ModelRows :
         Copies(train, x) + Copies(test, x) = Copies(split_model_df, x)
    /\ BagCardinality(train) + BagCardinality(test)
         = BagCardinality(split_model_df)

====
